---- MODULE Spec2Model ----
(***************************************************************************)
(* Model of the YTBooksmark popup controller (src/popup.js): the rendered  *)
(* bookmark list, the play and delete click handlers, the delayed re-fetch *)
(* and the initialization cycle, together with the pure helpers            *)
(* viewBookmarks / addNewBookmark and isYouTubeVideoPage / extractVideoId. *)
(***************************************************************************)
EXTENDS Integers, Sequences, FiniteSets, TLC

VARIABLES
  dom,        \* the popup document: which page content the container shows and
              \* the children of the #bookmarks element
  tab,        \* the active tab descriptor the tab query resolves with
  storage,    \* chrome.storage.sync: stored value per video id
  open,       \* TRUE while the popup is open
  init,       \* the initializeExtension invocation: position, storage
              \* response in flight, and what it has done
  tasks,      \* one record per click handler invocation (play or delete)
  sent,       \* messages handed to chrome.tabs.sendMessage, in order
  delivery,   \* per message of sent: what became of it at the content script
  uncaught,   \* places where an exception escaped a handler or callback
  viewArgs,   \* arguments of the direct viewBookmarks calls made, in order
  url,        \* argument handed to isYouTubeVideoPage / extractVideoId
  urlResult   \* value the latest call on url returned

vars == <<dom, tab, storage, open, init, tasks, sent, delivery, uncaught,
          viewArgs, url, urlResult>>

(***************************************************************************)
(* Bounds of the model.                                                    *)
(***************************************************************************)
MaxLen == 2         \* longest array handed directly to viewBookmarks
MaxViewCalls == 2   \* direct viewBookmarks calls in one behaviour
MaxUrlLen == 6      \* longest URL (in pieces) handed to the URL helpers
MaxStored == 2      \* longest bookmark list found in storage
MaxClicks == 2      \* icon clicks in one behaviour

(***************************************************************************)
(* JavaScript values.                                                      *)
(***************************************************************************)
Undef == [t |-> "undefined"]
Null == [t |-> "null"]
Num(n) == [t |-> "number", n |-> n]
Str(s) == [t |-> "string", s |-> s]
Obj(time, desc) == [t |-> "object", time |-> time, desc |-> desc]
Arr(a) == [t |-> "array", a |-> a]
Bool(b) == [t |-> "boolean", b |-> b]
\* A string kept as its sequence of pieces (used for URLs and video ids).
Chars(c) == [t |-> "chars", c |-> c]

\* ToBoolean: undefined, null, 0 and "" are falsy, everything else truthy.
Truthy(v) ==
  CASE v.t = "undefined" -> FALSE
    [] v.t = "null" -> FALSE
    [] v.t = "number" -> v.n # 0
    [] v.t = "string" -> v.s # ""
    [] v.t = "chars" -> v.c # <<>>
    [] v.t = "boolean" -> v.b
    [] OTHER -> TRUE

\* ToString as applied by the template literal and by setAttribute.
ToStr(v) ==
  CASE v.t = "undefined" -> "undefined"
    [] v.t = "null" -> "null"
    [] v.t = "number" -> ToString(v.n)
    [] v.t = "string" -> v.s
    [] OTHER -> "[object Object]"

\* bookmark.time / bookmark.desc: a property read on a non-object is undefined.
PropTime(v) == IF v.t = "object" THEN v.time ELSE Undef
PropDesc(v) == IF v.t = "object" THEN v.desc ELSE Undef

IsArray(v) == v.t = "array"

(***************************************************************************)
(* The rendered document.                                                  *)
(***************************************************************************)
NoBookmarksText == "No bookmarks to show"

\* <i class="row">No bookmarks to show</i>
Placeholder ==
  [tag |-> "i", cls |-> "row", id |-> "", timestamp |-> "", desc |-> "",
   text |-> NoBookmarksText]

\* The row element addNewBookmark assembles for a valid bookmark.
BookmarkElement(bookmark) ==
  [tag |-> "div", cls |-> "bookmark",
   id |-> "bookmark-" \o ToStr(bookmark.time),
   timestamp |-> ToStr(bookmark.time),
   desc |-> ToStr(bookmark.desc),
   text |-> ToStr(bookmark.desc)]

IsRow(el) == el.cls = "bookmark"

\* document.getElementById("bookmarks"): the element lives inside the
\* container, so it is gone once the container shows the message.
HasBookmarksElement(d) == d.page = "popup"

\* Variant: the time check written as !bookmark.time.
addNewBookmark_FalsyTime(children, bookmark) ==
  IF \/ ~Truthy(bookmark)
     \/ ~Truthy(PropTime(bookmark))
     \/ ~Truthy(PropDesc(bookmark))
  THEN children
  ELSE Append(children, BookmarkElement(bookmark))

addNewBookmark(children, bookmark) ==
  IF \/ ~Truthy(bookmark)
     \/ PropTime(bookmark) = Undef
     \/ ~Truthy(PropDesc(bookmark))
  THEN children
  ELSE Append(children, BookmarkElement(bookmark))

\* currentBookmarks.forEach(bookmark => addNewBookmark(bookmarksElement, bookmark))
RECURSIVE ForEachAdd(_, _)
ForEachAdd(children, arr) ==
  IF arr = <<>> THEN children
  ELSE ForEachAdd(addNewBookmark(children, Head(arr)), Tail(arr))

\* Variant: the clearing assignment left out.
ClearChildren_Kept(children) == children

\* Variant: the container is reset to the placeholder markup, not emptied.
ClearChildren_ToPlaceholder(children) == <<Placeholder>>

\* bookmarksElement.innerHTML = ""
ClearChildren(children) == <<>>

\* Variant: only the length is tested, so a non-array never gets the
\* placeholder.
viewBookmarks_LengthOnly(d, arg) ==
  LET currentBookmarks == IF arg = Undef THEN Arr(<<>>) ELSE arg
  IN IF ~HasBookmarksElement(d) THEN d
     ELSE LET cleared == ClearChildren(d.children)
          IN IF ~IsArray(currentBookmarks)
             THEN [d EXCEPT !.children = cleared]
             ELSE IF Len(currentBookmarks.a) = 0
             THEN [d EXCEPT !.children = <<Placeholder>>]
             ELSE [d EXCEPT !.children = ForEachAdd(cleared, currentBookmarks.a)]

viewBookmarks(d, arg) ==
  LET currentBookmarks == IF arg = Undef THEN Arr(<<>>) ELSE arg
  IN IF ~HasBookmarksElement(d) THEN d
     ELSE LET cleared == ClearChildren(d.children)
          IN IF ~IsArray(currentBookmarks) \/ Len(currentBookmarks.a) = 0
             THEN [d EXCEPT !.children = <<Placeholder>>]
             ELSE [d EXCEPT !.children = ForEachAdd(cleared, currentBookmarks.a)]

showNotYouTubeMessage(d) == [page |-> "message", children |-> <<>>]

(***************************************************************************)
(* Direct calls of viewBookmarks (it is exported): the inputs.             *)
(***************************************************************************)
ViewTimes == {Undef, Num(0), Num(1)}
ViewDescs == {Str(""), Str("a")}
ViewEntries == {Null, Obj(Num(1), Undef)}
                 \cup {Obj(tm, ds) : tm \in ViewTimes, ds \in ViewDescs}
ViewArrays == UNION {[1..k -> ViewEntries] : k \in 0..MaxLen}
ViewInputs == {Undef, Null, Num(1), Str("a"), Obj(Num(1), Str("a"))}
                \cup {Arr(a) : a \in ViewArrays}

NotCalled == [fn |-> "none", v |-> Undef]

InitialDoms ==
  {[page |-> "popup", children |-> <<>>],
   [page |-> "popup", children |-> <<Placeholder>>],
   [page |-> "popup", children |-> <<BookmarkElement(Obj(Num(1), Str("a")))>>],
   [page |-> "message", children |-> <<>>]}

(***************************************************************************)
(* URL helpers.  A URL is a sequence of pieces; "youtube.com/" followed by *)
(* "watch" spells the literal "youtube.com/watch".                         *)
(***************************************************************************)
UrlPieces == {"youtube.com/", "watch", "?", "&", "=", "v", "a"}
WatchLiteral == <<"youtube.com/", "watch">>

\* Position of the first occurrence of piece p in c, 0 when there is none.
IndexOf(c, p) ==
  IF \E i \in 1..Len(c) : c[i] = p
  THEN CHOOSE i \in 1..Len(c) : c[i] = p /\ \A j \in 1..(i - 1) : c[j] # p
  ELSE 0

\* String.prototype.split(sep): the sequence of segments between separators.
Split(c, sep) ==
  LET pos == {i \in 1..Len(c) : c[i] = sep}
      n == Cardinality(pos)
      \* position of the k-th separator
      At(k) == CHOOSE i \in pos : Cardinality({j \in pos : j < i}) = k - 1
  IN [k \in 1..(n + 1) |->
        SubSeq(c, IF k = 1 THEN 1 ELSE At(k - 1) + 1,
                  IF k = n + 1 THEN Len(c) ELSE At(k) - 1)]

\* String.prototype.includes(lit)
Includes(c, lit) ==
  \E i \in 1..(Len(c) - Len(lit) + 1) : SubSeq(c, i, i + Len(lit) - 1) = lit

\* new URLSearchParams(query): the list of <<name, value>> pairs; an
\* undefined query gives no pairs, empty segments between "&" are skipped and
\* a segment without "=" has the empty value.
ParamOf(seg) ==
  LET i == IndexOf(seg, "=")
  IN IF i = 0 THEN <<seg, <<>>>>
     ELSE <<SubSeq(seg, 1, i - 1), SubSeq(seg, i + 1, Len(seg))>>

NonEmpty(seg) == seg # <<>>

ParamsOf(segs) ==
  LET kept == SelectSeq(segs, NonEmpty)
  IN [k \in 1..Len(kept) |-> ParamOf(kept[k])]

URLSearchParams(query) ==
  IF query = Undef THEN <<>> ELSE ParamsOf(Split(query.c, "&"))

\* URLSearchParams.prototype.get(name): the first value under name, or null.
ParamsGet(params, name) ==
  IF \E i \in 1..Len(params) : params[i][1] = name
  THEN LET i == CHOOSE k \in 1..Len(params) :
                  /\ params[k][1] = name
                  /\ \A j \in 1..(k - 1) : params[j][1] # name
       IN Chars(params[i][2])
  ELSE Null

\* url.split("?")[1]
SplitQuery(u) ==
  LET parts == Split(u.c, "?")
  IN IF Len(parts) >= 2 THEN Chars(parts[2]) ELSE Undef

extractVideoId(u) ==
  IF ~Truthy(u) THEN Null
  ELSE ParamsGet(URLSearchParams(SplitQuery(u)), <<"v">>)

\* Variant: the watch-page substring test left out.
isYouTubeVideoPage_NoIncludes(u) ==
  IF ~Truthy(u) THEN u ELSE extractVideoId(u)

\* a && b && c evaluates to the first falsy operand, or to the last one.
isYouTubeVideoPage(u) ==
  IF ~Truthy(u) THEN u
  ELSE IF ~Includes(u.c, WatchLiteral) THEN Bool(FALSE)
  ELSE extractVideoId(u)

UrlStrings == UNION {[1..k -> UrlPieces] : k \in 0..MaxUrlLen}
UrlInputs == {Undef} \cup {Chars(c) : c \in UrlStrings}

(***************************************************************************)
(* The environment of the popup: active tab and storage.                   *)
(***************************************************************************)
WatchUrlA == Chars(<<"youtube.com/", "watch", "?", "v", "=", "a">>)
WatchUrlNoId == Chars(<<"youtube.com/", "watch">>)
WatchUrlEmptyId == Chars(<<"youtube.com/", "watch", "?", "v", "=">>)
OtherUrlWithId == Chars(<<"a", "?", "v", "=", "a">>)

TabIds == {Undef, Num(7)}
TabUrls == {Undef, WatchUrlA, WatchUrlNoId, WatchUrlEmptyId, OtherUrlWithId}
\* What getActiveTabURL() resolves with: no tab at all, or { id, url }.
Tabs == {Undef} \cup {[t |-> "tab", id |-> i, url |-> u] : i \in TabIds, u \in TabUrls}

\* extractVideoId(activeTab.url) and isYouTubeVideoPage(activeTab.url) for
\* each URL the active tab can have, tabulated once.
VideoIdOfTabUrl == [u \in TabUrls |-> extractVideoId(u)]
IsVideoPageOfTabUrl == [u \in TabUrls |-> isYouTubeVideoPage(u)]

\* activeTab?.id, activeTab?.url
OptId(activeTab) == IF activeTab.t = "tab" THEN activeTab.id ELSE Undef
OptUrl(activeTab) == IF activeTab.t = "tab" THEN activeTab.url ELSE Undef

\* Stored strings: the JSON text of a value, or text JSON.parse rejects.
Json(v) == [t |-> "json", v |-> v]
Garbage == [t |-> "garbage"]
\* JSON.parse
JSONparse(text) ==
  IF text.t = "json" THEN [ok |-> TRUE, v |-> text.v] ELSE [ok |-> FALSE, v |-> Undef]

\* Stored bookmark lists: any times (a missing time included), with a
\* description that names the position the entry was stored at.
StoredTimes == {Undef, Num(0), Num(1)}
StoredDesc(i) == Str("note " \o ToString(i))
StoredLists ==
  UNION {{[i \in 1..k |-> Obj(tm[i], StoredDesc(i))] : tm \in [1..k -> StoredTimes]}
           : k \in 0..MaxStored}
StoredValues == {Undef, Garbage, Json(Null)} \cup {Json(Arr(l)) : l \in StoredLists}
StoreKeys == {<<"a">>}

\* The stored text once the content script has filtered the bookmarks with
\* time value out of the list and written it back.
WithoutBookmark(text, value) ==
  LET Other(b) == ~(PropTime(b).t = "number" /\ ToStr(PropTime(b)) = ToStr(value))
  IN IF text.t = "json" /\ IsArray(text.v)
     THEN Json(Arr(SelectSeq(text.v.a, Other)))
     ELSE text

\* data[videoId] of a successful chrome.storage.sync.get([videoId], ...)
StorageGet(videoId) ==
  IF videoId.c \in DOMAIN storage THEN storage[videoId.c] ELSE Undef

\* What a storage read hands its callback: the data object of a successful
\* read, or a failed read (chrome.runtime.lastError set) whose data argument
\* is either undefined or an empty object.
StorageResponses(videoId) ==
  {[err |-> FALSE, hasData |-> TRUE, val |-> StorageGet(videoId)],
   [err |-> TRUE, hasData |-> FALSE, val |-> Undef],
   [err |-> TRUE, hasData |-> TRUE, val |-> Undef]}

NoResponse == [err |-> FALSE, hasData |-> FALSE, val |-> Undef]

(***************************************************************************)
(* initializeExtension.  init.reads counts the storage reads it issued and *)
(* init.views its viewBookmarks calls; init.end names how it finished.     *)
(***************************************************************************)
InitStart == [pc |-> "loading", resp |-> NoResponse, reads |-> 0, views |-> 0, end |-> ""]
InitIdle == [pc |-> "done", resp |-> NoResponse, reads |-> 0, views |-> 0, end |-> ""]

DOMContentLoaded ==
  /\ open /\ init.pc = "loading"
  /\ init' = [init EXCEPT !.pc = "awaitTab"]
  /\ UNCHANGED <<dom, tab, storage, open, tasks, sent, delivery, uncaught,
                 viewArgs, url, urlResult>>

\* await getActiveTabURL() rejects: the catch block shows the message.
InitTabReject ==
  /\ open /\ init.pc = "awaitTab"
  /\ dom' = showNotYouTubeMessage(dom)
  /\ init' = [init EXCEPT !.pc = "done", !.end = "tab query failed"]
  /\ UNCHANGED <<tab, storage, open, tasks, sent, delivery, uncaught,
                 viewArgs, url, urlResult>>

\* Variant: the isYouTubeVideoPage test left out.
InitTabResolve_NoPageCheck ==
  /\ open /\ init.pc = "awaitTab"
  /\ LET activeTab == tab
         u == OptUrl(activeTab)
     IN IF ~Truthy(u)
        THEN /\ dom' = showNotYouTubeMessage(dom)
             /\ init' = [init EXCEPT !.pc = "done", !.end = "no url"]
        ELSE IF ~Truthy(VideoIdOfTabUrl[u])
        THEN /\ dom' = showNotYouTubeMessage(dom)
             /\ init' = [init EXCEPT !.pc = "done", !.end = "no video id"]
        ELSE /\ dom' = dom
             /\ init' = [init EXCEPT !.pc = "awaitStorage", !.reads = @ + 1]
  /\ UNCHANGED <<tab, storage, open, tasks, sent, delivery, uncaught,
                 viewArgs, url, urlResult>>

InitTabResolve ==
  /\ open /\ init.pc = "awaitTab"
  /\ LET activeTab == tab
         u == OptUrl(activeTab)
     IN IF ~Truthy(u)
        THEN /\ dom' = showNotYouTubeMessage(dom)
             /\ init' = [init EXCEPT !.pc = "done", !.end = "no url"]
        ELSE IF ~Truthy(IsVideoPageOfTabUrl[u])
        THEN /\ dom' = showNotYouTubeMessage(dom)
             /\ init' = [init EXCEPT !.pc = "done", !.end = "not a video page"]
        ELSE IF ~Truthy(VideoIdOfTabUrl[u])
        THEN /\ dom' = showNotYouTubeMessage(dom)
             /\ init' = [init EXCEPT !.pc = "done", !.end = "no video id"]
        ELSE /\ dom' = dom
             /\ init' = [init EXCEPT !.pc = "awaitStorage", !.reads = @ + 1]
  /\ UNCHANGED <<tab, storage, open, tasks, sent, delivery, uncaught,
                 viewArgs, url, urlResult>>

InitStorageRespond ==
  /\ open /\ init.pc = "awaitStorage"
  /\ \E r \in StorageResponses(VideoIdOfTabUrl[OptUrl(tab)]) :
       init' = [init EXCEPT !.pc = "callback", !.resp = r]
  /\ UNCHANGED <<dom, tab, storage, open, tasks, sent, delivery, uncaught,
                 viewArgs, url, urlResult>>

\* The callback body after the lastError test (lines 275-279); a throw in
\* it is outside the try block of initializeExtension, which has returned.
InitCallbackBody(r) ==
  IF ~r.hasData
  THEN /\ uncaught' = uncaught \cup {"initializeExtension storage callback"}
       /\ dom' = dom
       /\ init' = [init EXCEPT !.pc = "done", !.resp = NoResponse,
                               !.end = "callback threw"]
  ELSE IF ~Truthy(r.val)
  THEN /\ dom' = viewBookmarks(dom, Arr(<<>>))
       /\ uncaught' = uncaught
       /\ init' = [init EXCEPT !.pc = "done", !.resp = NoResponse,
                               !.views = @ + 1, !.end = "rendered"]
  ELSE IF ~JSONparse(r.val).ok
  THEN /\ uncaught' = uncaught \cup {"initializeExtension storage callback"}
       /\ dom' = dom
       /\ init' = [init EXCEPT !.pc = "done", !.resp = NoResponse,
                               !.end = "callback threw"]
  ELSE /\ dom' = viewBookmarks(dom, JSONparse(r.val).v)
       /\ uncaught' = uncaught
       /\ init' = [init EXCEPT !.pc = "done", !.resp = NoResponse,
                               !.views = @ + 1, !.end = "rendered"]

\* Variant: the chrome.runtime.lastError test left out.
InitStorageCallback_NoErrorCheck ==
  /\ open /\ init.pc = "callback"
  /\ InitCallbackBody(init.resp)
  /\ UNCHANGED <<tab, storage, open, tasks, sent, delivery, viewArgs, url, urlResult>>

InitStorageCallback ==
  /\ open /\ init.pc = "callback"
  /\ IF init.resp.err
     THEN /\ init' = [init EXCEPT !.pc = "done", !.resp = NoResponse,
                                  !.end = "storage error"]
          /\ UNCHANGED <<dom, uncaught>>
     ELSE InitCallbackBody(init.resp)
  /\ UNCHANGED <<tab, storage, open, tasks, sent, delivery, viewArgs, url, urlResult>>

(***************************************************************************)
(* Click handlers.  A task is one invocation of onPlay or onDelete,        *)
(* followed for onDelete by its timer and its refreshBookmarks run.        *)
(* task.row is the row holding the clicked icon (NoRow for an event whose  *)
(* target is inside no row), task.clicked its position at click time,      *)
(* task.removed the position of the element onDelete removed (0: none),    *)
(* task.reads the storage reads the task issued.                           *)
(***************************************************************************)
MessageTypePlay == "PLAY"
MessageTypeDelete == "DELETE"

NoRow ==
  [tag |-> "none", cls |-> "", id |-> "", timestamp |-> "", desc |-> "",
   text |-> ""]

EventRow(children, i) == IF i \in 1..Len(children) THEN children[i] ELSE NoRow

NewTask(kind, children, i) ==
  [kind |-> kind, pc |-> "start", row |-> EventRow(children, i), ts |-> Null,
   clicked |-> i, removed |-> 0, reads |-> 0, end |-> "", resp |-> NoResponse]

\* event.target.closest(".bookmark").getAttribute("timestamp") for an event on
\* an icon of the i-th child of the bookmarks element (i = 0: a target that
\* has no ancestor row).
getTimestampFromEvent(children, i) ==
  IF i \in 1..Len(children) /\ IsRow(children[i])
  THEN Str(children[i].timestamp)
  ELSE Null

\* Variant: the row is looked up by class, as the first bookmark row.
getElementById_FirstRow(children, id) ==
  IF \E j \in 1..Len(children) : IsRow(children[j])
  THEN CHOOSE j \in 1..Len(children) :
         /\ IsRow(children[j])
         /\ \A k \in 1..(j - 1) : ~IsRow(children[k])
  ELSE 0

\* document.getElementById(id): index of the first element with that id, or 0.
getElementById(children, id) ==
  IF \E j \in 1..Len(children) : children[j].id = id
  THEN CHOOSE j \in 1..Len(children) :
         /\ children[j].id = id
         /\ \A k \in 1..(j - 1) : children[k].id # id
  ELSE 0

\* element.remove()
RemoveAt(children, j) ==
  SubSeq(children, 1, j - 1) \o SubSeq(children, j + 1, Len(children))

SetTask(t, rec) == tasks' = [tasks EXCEPT ![t] = rec]

\* An event can be dispatched on an icon of a rendered row, or (the handlers
\* are exported) handed over with a target outside every row.
EventTarget(i) ==
  \/ i = 0
  \/ /\ HasBookmarksElement(dom)
     /\ i \in 1..Len(dom.children) /\ IsRow(dom.children[i])

\* onPlay up to its first await.
PlayClick(i) ==
  /\ open /\ Len(tasks) < MaxClicks
  /\ EventTarget(i)
  /\ LET timestamp == getTimestampFromEvent(dom.children, i)
         task == [NewTask("play", dom.children, i) EXCEPT !.ts = timestamp]
     IN IF ~Truthy(timestamp)
        THEN tasks' = Append(tasks, [task EXCEPT !.pc = "done", !.end = "no timestamp"])
        ELSE tasks' = Append(tasks, [task EXCEPT !.pc = "awaitTab"])
  /\ UNCHANGED <<dom, tab, storage, open, init, sent, delivery, uncaught,
                 viewArgs, url, urlResult>>

\* Variant: onDelete also deletes the bookmark from storage itself.
DeleteClick_WritesStorage(i) ==
  /\ open /\ Len(tasks) < MaxClicks
  /\ EventTarget(i)
  /\ LET timestamp == getTimestampFromEvent(dom.children, i)
         task == [NewTask("delete", dom.children, i) EXCEPT !.ts = timestamp]
         j == getElementById(dom.children, "bookmark-" \o ToStr(timestamp))
     IN IF ~Truthy(timestamp)
        THEN /\ tasks' = Append(tasks, [task EXCEPT !.pc = "done", !.end = "no timestamp"])
             /\ UNCHANGED <<dom, storage>>
        ELSE IF j = 0
        THEN /\ tasks' = Append(tasks, [task EXCEPT !.pc = "done", !.end = "no element"])
             /\ UNCHANGED <<dom, storage>>
        ELSE /\ tasks' = Append(tasks, [task EXCEPT !.pc = "awaitTab", !.removed = j])
             /\ dom' = [dom EXCEPT !.children = RemoveAt(dom.children, j)]
             /\ storage' = [key \in DOMAIN storage |->
                              WithoutBookmark(storage[key], timestamp)]
  /\ UNCHANGED <<tab, open, init, sent, delivery, uncaught,
                 viewArgs, url, urlResult>>

\* onDelete up to its first await.
DeleteClick(i) ==
  /\ open /\ Len(tasks) < MaxClicks
  /\ EventTarget(i)
  /\ LET timestamp == getTimestampFromEvent(dom.children, i)
         task == [NewTask("delete", dom.children, i) EXCEPT !.ts = timestamp]
         j == getElementById(dom.children, "bookmark-" \o ToStr(timestamp))
     IN IF ~Truthy(timestamp)
        THEN /\ tasks' = Append(tasks, [task EXCEPT !.pc = "done", !.end = "no timestamp"])
             /\ dom' = dom
        ELSE IF j = 0
        THEN /\ tasks' = Append(tasks, [task EXCEPT !.pc = "done", !.end = "no element"])
             /\ dom' = dom
        ELSE /\ tasks' = Append(tasks, [task EXCEPT !.pc = "awaitTab", !.removed = j])
             /\ dom' = [dom EXCEPT !.children = RemoveAt(dom.children, j)]
  /\ UNCHANGED <<tab, storage, open, init, sent, delivery, uncaught,
                 viewArgs, url, urlResult>>

\* A row that is not (or no longer) in the document.
DetachedRow == BookmarkElement(Obj(Num(0), Str("detached")))

\* onDelete up to its first await, for an event whose target is an icon of
\* the detached row: the timestamp is read from that row, the element is
\* looked up in the document.
DeleteDetachedRow ==
  /\ open /\ Len(tasks) < MaxClicks
  /\ LET timestamp == Str(DetachedRow.timestamp)
         task == [NewTask("delete", dom.children, 0) EXCEPT
                    !.row = DetachedRow, !.ts = timestamp]
         j == getElementById(dom.children, "bookmark-" \o ToStr(timestamp))
     IN IF ~Truthy(timestamp)
        THEN /\ tasks' = Append(tasks, [task EXCEPT !.pc = "done", !.end = "no timestamp"])
             /\ dom' = dom
        ELSE IF j = 0
        THEN /\ tasks' = Append(tasks, [task EXCEPT !.pc = "done", !.end = "no element"])
             /\ dom' = dom
        ELSE /\ tasks' = Append(tasks, [task EXCEPT !.pc = "awaitTab", !.removed = j])
             /\ dom' = [dom EXCEPT !.children = RemoveAt(dom.children, j)]
  /\ UNCHANGED <<tab, storage, open, init, sent, delivery, uncaught,
                 viewArgs, url, urlResult>>

\* await getActiveTabURL() rejects inside onPlay / onDelete: caught and logged.
TabReject(t) ==
  /\ open /\ t \in 1..Len(tasks) /\ tasks[t].pc = "awaitTab"
  /\ SetTask(t, [tasks[t] EXCEPT !.pc = "done", !.end = "tab query failed"])
  /\ UNCHANGED <<dom, tab, storage, open, init, sent, delivery, uncaught,
                 viewArgs, url, urlResult>>

TaskMessage(t, activeTab) ==
  [type |-> IF tasks[t].kind = "play" THEN MessageTypePlay ELSE MessageTypeDelete,
   value |-> tasks[t].ts, to |-> OptId(activeTab), by |-> t]

\* Variant: the message is sent whether or not the tab has an id.
TabResolve_NoIdCheck(t) ==
  /\ open /\ t \in 1..Len(tasks) /\ tasks[t].pc = "awaitTab"
  /\ sent' = Append(sent, TaskMessage(t, tab))
  /\ delivery' = Append(delivery, "pending")
  /\ SetTask(t, [tasks[t] EXCEPT !.pc = "awaitSend"])
  /\ UNCHANGED <<dom, tab, storage, open, init, uncaught,
                 viewArgs, url, urlResult>>

\* await getActiveTabURL() resolves inside onPlay / onDelete.
TabResolve(t) ==
  /\ open /\ t \in 1..Len(tasks) /\ tasks[t].pc = "awaitTab"
  /\ LET activeTab == tab
     IN IF Truthy(OptId(activeTab))
        THEN /\ sent' = Append(sent, TaskMessage(t, activeTab))
             /\ delivery' = Append(delivery, "pending")
             /\ SetTask(t, [tasks[t] EXCEPT !.pc = "awaitSend"])
        ELSE /\ sent' = sent
             /\ delivery' = delivery
             /\ IF tasks[t].kind = "play"
                THEN SetTask(t, [tasks[t] EXCEPT !.pc = "done", !.end = "no tab"])
                ELSE SetTask(t, [tasks[t] EXCEPT !.pc = "timer"])
  /\ UNCHANGED <<dom, tab, storage, open, init, uncaught,
                 viewArgs, url, urlResult>>

\* Variant: onDelete schedules no timer after its message.
SendResolve_NoTimer(t) ==
  /\ open /\ t \in 1..Len(tasks) /\ tasks[t].pc = "awaitSend"
  /\ SetTask(t, [tasks[t] EXCEPT !.pc = "done", !.end = "sent"])
  /\ UNCHANGED <<dom, tab, storage, open, init, sent, delivery, uncaught,
                 viewArgs, url, urlResult>>

\* await chrome.tabs.sendMessage(...) resolves; onDelete then sets its timer.
SendResolve(t) ==
  /\ open /\ t \in 1..Len(tasks) /\ tasks[t].pc = "awaitSend"
  /\ IF tasks[t].kind = "play"
     THEN SetTask(t, [tasks[t] EXCEPT !.pc = "done", !.end = "sent"])
     ELSE SetTask(t, [tasks[t] EXCEPT !.pc = "timer"])
  /\ UNCHANGED <<dom, tab, storage, open, init, sent, delivery, uncaught,
                 viewArgs, url, urlResult>>

\* await chrome.tabs.sendMessage(...) rejects (the message found no
\* receiver): caught and logged; the setTimeout call after it is skipped.
SendReject(t) ==
  /\ open /\ t \in 1..Len(tasks) /\ tasks[t].pc = "awaitSend"
  /\ \E k \in 1..Len(sent) :
       /\ sent[k].by = t /\ delivery[k] = "pending"
       /\ delivery' = [delivery EXCEPT ![k] = "failed"]
  /\ SetTask(t, [tasks[t] EXCEPT !.pc = "done", !.end = "send failed"])
  /\ UNCHANGED <<dom, tab, storage, open, init, sent, uncaught,
                 viewArgs, url, urlResult>>

(***************************************************************************)
(* The delayed re-fetch: setTimeout(() => refreshBookmarks(), 100)         *)
(***************************************************************************)
RefreshDelay == 100

\* The timer fires and refreshBookmarks runs up to its await.
TimerFire(t) ==
  /\ open /\ t \in 1..Len(tasks) /\ tasks[t].pc = "timer"
  /\ SetTask(t, [tasks[t] EXCEPT !.pc = "refreshAwaitTab"])
  /\ UNCHANGED <<dom, tab, storage, open, init, sent, delivery, uncaught,
                 viewArgs, url, urlResult>>

RefreshTabReject(t) ==
  /\ open /\ t \in 1..Len(tasks) /\ tasks[t].pc = "refreshAwaitTab"
  /\ SetTask(t, [tasks[t] EXCEPT !.pc = "done", !.end = "refresh tab query failed"])
  /\ UNCHANGED <<dom, tab, storage, open, init, sent, delivery, uncaught,
                 viewArgs, url, urlResult>>

\* activeTab.url throws on an undefined tab (caught); no video id: return.
RefreshTabResolve(t) ==
  /\ open /\ t \in 1..Len(tasks) /\ tasks[t].pc = "refreshAwaitTab"
  /\ LET activeTab == tab
     IN IF activeTab = Undef
        THEN SetTask(t, [tasks[t] EXCEPT !.pc = "done", !.end = "refresh no tab"])
        ELSE IF ~Truthy(VideoIdOfTabUrl[activeTab.url])
        THEN SetTask(t, [tasks[t] EXCEPT !.pc = "done", !.end = "refresh no video id"])
        ELSE SetTask(t, [tasks[t] EXCEPT !.pc = "refreshAwaitStorage", !.reads = @ + 1])
  /\ UNCHANGED <<dom, tab, storage, open, init, sent, delivery, uncaught,
                 viewArgs, url, urlResult>>

RefreshStorageRespond(t) ==
  /\ open /\ t \in 1..Len(tasks) /\ tasks[t].pc = "refreshAwaitStorage"
  /\ \E r \in StorageResponses(VideoIdOfTabUrl[tab.url]) :
       SetTask(t, [tasks[t] EXCEPT !.pc = "refreshCallback", !.resp = r])
  /\ UNCHANGED <<dom, tab, storage, open, init, sent, delivery, uncaught,
                 viewArgs, url, urlResult>>

\* Variant: an empty stored list is not rendered (the callback returns when
\* it finds no bookmark).
RefreshStorageCallback_SkipsEmpty(t) ==
  /\ open /\ t \in 1..Len(tasks) /\ tasks[t].pc = "refreshCallback"
  /\ LET r == tasks[t].resp
         finish(e) == SetTask(t, [tasks[t] EXCEPT !.pc = "done", !.end = e,
                                                  !.resp = NoResponse])
     IN IF ~r.hasData
        THEN /\ uncaught' = uncaught \cup {"refreshBookmarks storage callback"}
             /\ dom' = dom
             /\ finish("refresh callback threw")
        ELSE IF ~Truthy(r.val)
        THEN /\ dom' = dom
             /\ uncaught' = uncaught
             /\ finish("refreshed")
        ELSE IF ~JSONparse(r.val).ok
        THEN /\ uncaught' = uncaught \cup {"refreshBookmarks storage callback"}
             /\ dom' = dom
             /\ finish("refresh callback threw")
        ELSE /\ dom' = IF JSONparse(r.val).v = Arr(<<>>) THEN dom
                       ELSE viewBookmarks(dom, JSONparse(r.val).v)
             /\ uncaught' = uncaught
             /\ finish("refreshed")
  /\ UNCHANGED <<tab, storage, open, init, sent, delivery, viewArgs, url, urlResult>>

\* Variant: the stored value is looked up as data.videoId, a key that is
\* never there.
RefreshStorageCallback_WrongKey(t) ==
  /\ open /\ t \in 1..Len(tasks) /\ tasks[t].pc = "refreshCallback"
  /\ LET r == tasks[t].resp
         finish(e) == SetTask(t, [tasks[t] EXCEPT !.pc = "done", !.end = e,
                                                  !.resp = NoResponse])
     IN IF ~r.hasData
        THEN /\ uncaught' = uncaught \cup {"refreshBookmarks storage callback"}
             /\ dom' = dom
             /\ finish("refresh callback threw")
        ELSE /\ dom' = viewBookmarks(dom, Arr(<<>>))
             /\ uncaught' = uncaught
             /\ finish("refreshed")
  /\ UNCHANGED <<tab, storage, open, init, sent, delivery, viewArgs, url, urlResult>>

\* Variant: a response arriving after a later delete's re-fetch has already
\* rendered is dropped instead of rendered.
RefreshStorageCallback_LatestOnly(t) ==
  /\ open /\ t \in 1..Len(tasks) /\ tasks[t].pc = "refreshCallback"
  /\ LET r == tasks[t].resp
         stale == \E u \in (t + 1)..Len(tasks) : tasks[u].end = "refreshed"
         finish(e) == SetTask(t, [tasks[t] EXCEPT !.pc = "done", !.end = e,
                                                  !.resp = NoResponse])
     IN IF ~r.hasData
        THEN /\ uncaught' = uncaught \cup {"refreshBookmarks storage callback"}
             /\ dom' = dom
             /\ finish("refresh callback threw")
        ELSE IF ~Truthy(r.val)
        THEN /\ dom' = IF stale THEN dom ELSE viewBookmarks(dom, Arr(<<>>))
             /\ uncaught' = uncaught
             /\ finish("refreshed")
        ELSE IF ~JSONparse(r.val).ok
        THEN /\ uncaught' = uncaught \cup {"refreshBookmarks storage callback"}
             /\ dom' = dom
             /\ finish("refresh callback threw")
        ELSE /\ dom' = IF stale THEN dom ELSE viewBookmarks(dom, JSONparse(r.val).v)
             /\ uncaught' = uncaught
             /\ finish("refreshed")
  /\ UNCHANGED <<tab, storage, open, init, sent, delivery, viewArgs, url, urlResult>>

\* The callback of refreshBookmarks: no lastError test, and a throw in it is
\* outside the try block of refreshBookmarks, which has returned.
RefreshStorageCallback(t) ==
  /\ open /\ t \in 1..Len(tasks) /\ tasks[t].pc = "refreshCallback"
  /\ LET r == tasks[t].resp
         finish(e) == SetTask(t, [tasks[t] EXCEPT !.pc = "done", !.end = e,
                                                  !.resp = NoResponse])
     IN IF ~r.hasData
        THEN /\ uncaught' = uncaught \cup {"refreshBookmarks storage callback"}
             /\ dom' = dom
             /\ finish("refresh callback threw")
        ELSE IF ~Truthy(r.val)
        THEN /\ dom' = viewBookmarks(dom, Arr(<<>>))
             /\ uncaught' = uncaught
             /\ finish("refreshed")
        ELSE IF ~JSONparse(r.val).ok
        THEN /\ uncaught' = uncaught \cup {"refreshBookmarks storage callback"}
             /\ dom' = dom
             /\ finish("refresh callback threw")
        ELSE /\ dom' = viewBookmarks(dom, JSONparse(r.val).v)
             /\ uncaught' = uncaught
             /\ finish("refreshed")
  /\ UNCHANGED <<tab, storage, open, init, sent, delivery, viewArgs, url, urlResult>>

(***************************************************************************)
(* The content script of the video page.  On a DELETE message it drops the *)
(* bookmarks with the message's time from the list stored for its video    *)
(* and writes the list back; it does so at its own pace, before or after   *)
(* the popup's send resolves and the popup's re-fetch reads storage.       *)
(***************************************************************************)
ContentScriptDelete(k) ==
  /\ k \in 1..Len(sent)
  /\ sent[k].type = MessageTypeDelete /\ delivery[k] = "pending"
  /\ delivery' = [delivery EXCEPT ![k] = "applied"]
  /\ LET currentVideo == VideoIdOfTabUrl[OptUrl(tab)]
     IN IF currentVideo.t = "chars" /\ currentVideo.c \in DOMAIN storage
        THEN storage' = [storage EXCEPT ![currentVideo.c] =
                           WithoutBookmark(@, sent[k].value)]
        ELSE storage' = storage
  /\ UNCHANGED <<dom, tab, open, init, tasks, sent, uncaught,
                 viewArgs, url, urlResult>>

\* Closing the popup discards the document and every pending continuation.
ClosePopup ==
  /\ open
  /\ open' = FALSE
  /\ dom' = [page |-> "closed", children |-> <<>>]
  /\ init' = InitIdle
  /\ tasks' = <<>>
  /\ uncaught' = {}
  /\ UNCHANGED <<tab, storage, sent, delivery, viewArgs, url, urlResult>>

(***************************************************************************)
(* Specification of the popup.                                             *)
(***************************************************************************)
Init ==
  /\ dom = [page |-> "popup", children |-> <<>>]
  /\ tab \in Tabs
  /\ storage \in [StoreKeys -> StoredValues]
  /\ open = TRUE
  /\ init = InitStart
  /\ tasks = <<>>
  /\ sent = <<>>
  /\ delivery = <<>>
  /\ uncaught = {}
  /\ viewArgs = <<>>
  /\ url = Undef
  /\ urlResult = NotCalled

\* The steps of the popup itself.
PopupNext ==
  \/ DOMContentLoaded
  \/ InitTabReject
  \/ InitTabResolve
  \/ InitStorageRespond
  \/ InitStorageCallback
  \/ \E i \in 1..Len(dom.children) : PlayClick(i)
  \/ \E i \in 1..Len(dom.children) : DeleteClick(i)
  \/ \E t \in 1..MaxClicks : TabReject(t)
  \/ \E t \in 1..MaxClicks : TabResolve(t)
  \/ \E t \in 1..MaxClicks : SendResolve(t)
  \/ \E t \in 1..MaxClicks : SendReject(t)
  \/ \E t \in 1..MaxClicks : TimerFire(t)
  \/ \E t \in 1..MaxClicks : RefreshTabReject(t)
  \/ \E t \in 1..MaxClicks : RefreshTabResolve(t)
  \/ \E t \in 1..MaxClicks : RefreshStorageRespond(t)
  \/ \E t \in 1..MaxClicks : RefreshStorageCallback(t)
  \/ ClosePopup

\* The popup together with the content script of the page.
Next ==
  \/ PopupNext
  \/ \E k \in 1..MaxClicks : ContentScriptDelete(k)

Spec == Init /\ [][Next]_vars

\* A step of some pending continuation: a promise settling, a timer firing,
\* a storage read calling back.
Settle ==
  \E t \in 1..MaxClicks :
    \/ TabResolve(t) \/ TabReject(t)
    \/ SendResolve(t) \/ SendReject(t)
    \/ TimerFire(t)
    \/ RefreshTabResolve(t) \/ RefreshTabReject(t)
    \/ RefreshStorageRespond(t)
    \/ RefreshStorageCallback(t)

\* While the popup is open the event loop keeps running pending
\* continuations; closing the popup is never forced.
Fairness == WF_vars(Settle)

\* The popup on its own, storage staying as it was found: whether its
\* continuations run does not depend on what the content script does.
FairSpec == Init /\ [][PopupNext]_vars /\ Fairness

(***************************************************************************)
(* Specification of the popup with the exported handlers also invoked      *)
(* directly, on events whose target lies in no row or in a detached row.   *)
(***************************************************************************)
PlayOutsideRow == PlayClick(0)

DeleteOutsideRow == DeleteClick(0)

NextEvents == Next \/ PlayOutsideRow \/ DeleteOutsideRow \/ DeleteDetachedRow

SpecEvents == Init /\ [][NextEvents]_vars

(***************************************************************************)
(* Specification of one run of initializeExtension or of refreshBookmarks, *)
(* each for every active tab and every storage outcome.  refreshBookmarks  *)
(* starts as onDelete starts it, from a pending timer, on a document that  *)
(* is fresh or already holds a row.                                        *)
(***************************************************************************)
RefreshCall == [NewTask("delete", <<>>, 0) EXCEPT !.pc = "timer"]

InitCycle ==
  /\ tab \in Tabs
  /\ storage \in [StoreKeys -> StoredValues]
  /\ open = TRUE
  /\ \/ /\ init = InitStart /\ tasks = <<>>
        /\ dom = [page |-> "popup", children |-> <<>>]
     \/ /\ init = InitIdle /\ tasks = <<RefreshCall>>
        /\ dom \in {[page |-> "popup", children |-> <<>>],
                    [page |-> "popup",
                     children |-> <<BookmarkElement(Obj(Num(1), Str("a")))>>]}
  /\ sent = <<>>
  /\ delivery = <<>>
  /\ uncaught = {}
  /\ viewArgs = <<>>
  /\ url = Undef
  /\ urlResult = NotCalled

NextCycle ==
  \/ DOMContentLoaded
  \/ InitTabReject
  \/ InitTabResolve
  \/ InitStorageRespond
  \/ InitStorageCallback
  \/ TimerFire(1)
  \/ RefreshTabReject(1)
  \/ RefreshTabResolve(1)
  \/ RefreshStorageRespond(1)
  \/ RefreshStorageCallback(1)

SpecCycle == InitCycle /\ [][NextCycle]_vars

(***************************************************************************)
(* Specification of direct viewBookmarks calls on a document that may      *)
(* already hold rendered content.                                          *)
(***************************************************************************)
CallViewBookmarks(arg) ==
  /\ Len(viewArgs) < MaxViewCalls
  /\ dom' = viewBookmarks(dom, arg)
  /\ viewArgs' = Append(viewArgs, arg)
  /\ UNCHANGED <<tab, storage, open, init, tasks, sent, delivery, uncaught,
                 url, urlResult>>

InitView ==
  /\ dom \in InitialDoms
  /\ tab = Undef
  /\ storage = [k \in StoreKeys |-> Undef]
  /\ open = TRUE
  /\ init = InitIdle
  /\ tasks = <<>>
  /\ sent = <<>>
  /\ delivery = <<>>
  /\ uncaught = {}
  /\ viewArgs = <<>>
  /\ url = Undef
  /\ urlResult = NotCalled

NextView == \E arg \in ViewInputs : CallViewBookmarks(arg)

SpecView == InitView /\ [][NextView]_vars

(***************************************************************************)
(* Specification of calls of the URL helpers on every bounded URL.         *)
(***************************************************************************)
CallIsYouTubeVideoPage ==
  /\ urlResult' = [fn |-> "isYouTubeVideoPage", v |-> isYouTubeVideoPage(url)]
  /\ UNCHANGED <<dom, tab, storage, open, init, tasks, sent, delivery,
                 uncaught, viewArgs, url>>

CallExtractVideoId ==
  /\ urlResult' = [fn |-> "extractVideoId", v |-> extractVideoId(url)]
  /\ UNCHANGED <<dom, tab, storage, open, init, tasks, sent, delivery,
                 uncaught, viewArgs, url>>

InitUrl ==
  /\ dom = [page |-> "popup", children |-> <<>>]
  /\ tab = Undef
  /\ storage = [k \in StoreKeys |-> Undef]
  /\ open = TRUE
  /\ init = InitIdle
  /\ tasks = <<>>
  /\ sent = <<>>
  /\ delivery = <<>>
  /\ uncaught = {}
  /\ viewArgs = <<>>
  /\ url \in UrlInputs
  /\ urlResult = NotCalled

NextUrl == CallIsYouTubeVideoPage \/ CallExtractVideoId

SpecUrl == InitUrl /\ [][NextUrl]_vars

(***************************************************************************)
(* Properties of viewBookmarks, checked under SpecView.                    *)
(***************************************************************************)
LastViewArg == viewArgs[Len(viewArgs)]
\* The array a direct call works on (an omitted argument defaults to []).
ArrayOf(arg) == IF IsArray(arg) THEN arg.a ELSE <<>>
RenderedRows(d) == SelectSeq(d.children, IsRow)
\* An entry with a defined time and a truthy desc.
ValidEntry(e) == e.t = "object" /\ e.time # Undef /\ Truthy(e.desc)
ExpectedRows(arr) ==
  LET valid == SelectSeq(arr, ValidEntry)
  IN [i \in 1..Len(valid) |-> BookmarkElement(valid[i])]
FreshDocument == [page |-> "popup", children |-> <<>>]

\* C1: after viewBookmarks(input) on an existing bookmarks element, the
\* rendered rows are exactly the rows of the entries of input that have a
\* defined time and a truthy desc, in input order; an invalid entry gives no
\* row and does not stop the entries after it.
C1_RowsAreTheValidEntries ==
  (viewArgs # <<>> /\ HasBookmarksElement(dom))
    => RenderedRows(dom) = ExpectedRows(ArrayOf(LastViewArg))

C1_Witness ==
  /\ viewArgs # <<>>
  /\ LastViewArg = Arr(<<Obj(Undef, Str("a")), Obj(Num(0), Str("a"))>>)
  /\ RenderedRows(dom) = <<BookmarkElement(Obj(Num(0), Str("a")))>>

\* C2: after viewBookmarks is called with an empty array or a non-array
\* value on an existing bookmarks element, the element holds exactly the
\* placeholder "No bookmarks to show" and no bookmark row, whatever it held
\* before.
C2_EmptyOrNonArrayGivesPlaceholder ==
  (/\ viewArgs # <<>>
   /\ HasBookmarksElement(dom)
   /\ (~IsArray(LastViewArg) \/ LastViewArg = Arr(<<>>)))
    => /\ dom.children = <<Placeholder>>
       /\ dom.children[1].text = "No bookmarks to show"
       /\ RenderedRows(dom) = <<>>

C2_Witness ==
  /\ Len(viewArgs) = 2
  /\ viewArgs[1] = Arr(<<Obj(Num(1), Str("a"))>>)
  /\ viewArgs[2] = Null
  /\ dom.children = <<Placeholder>>

\* C3: after viewBookmarks(A) followed by viewBookmarks(B) the document is
\* the one viewBookmarks(B) alone produces from the fresh document: nothing
\* of the earlier render (or of earlier content) survives, and B twice is B
\* once.
C3_SecondRenderAlone ==
  (viewArgs # <<>> /\ HasBookmarksElement(dom))
    => dom = viewBookmarks(FreshDocument, LastViewArg)

C3_Witness ==
  /\ Len(viewArgs) = 2
  /\ viewArgs[1] = Arr(<<Obj(Num(0), Str("a")), Obj(Num(1), Str("a"))>>)
  /\ viewArgs[2] = Arr(<<Obj(Num(1), Str("a"))>>)
  /\ dom.children = <<BookmarkElement(Obj(Num(1), Str("a")))>>

(***************************************************************************)
(* Properties of the popup, checked under Spec and FairSpec.               *)
(***************************************************************************)
IsDeleteTask(t) == t \in 1..Len(tasks) /\ tasks[t].kind = "delete"
IsPlayTask(t) == t \in 1..Len(tasks) /\ tasks[t].kind = "play"
MessagesBy(t) == {k \in 1..Len(sent) : sent[k].by = t}

\* C4: a click on the delete icon of a rendered row removes that same row
\* (the one holding the clicked icon), at once and whatever happens to the
\* tab query and the message afterwards.
C4_ClickedRowIsRemoved ==
  \A t \in 1..Len(tasks) :
    (IsDeleteTask(t) /\ tasks[t].clicked > 0)
      => tasks[t].removed = tasks[t].clicked

\* The handler of a delete that removed a row failed before its setTimeout.
HandlerFailed(t) ==
  /\ IsDeleteTask(t)
  /\ tasks[t].pc = "done"
  /\ tasks[t].end \in {"tab query failed", "send failed"}

\* refreshBookmarks has run to its end for the delete.
RefreshFinished(t) ==
  /\ IsDeleteTask(t)
  /\ tasks[t].pc = "done"
  /\ tasks[t].end \in {"refreshed", "refresh tab query failed", "refresh no tab",
                       "refresh no video id", "refresh callback threw"}

\* refreshBookmarks has been started for the delete.
RefreshStarted(t) ==
  /\ IsDeleteTask(t)
  /\ \/ tasks[t].pc \in {"refreshAwaitTab", "refreshAwaitStorage", "refreshCallback"}
     \/ RefreshFinished(t)

RemovedARow(t) == IsDeleteTask(t) /\ tasks[t].removed > 0

C6_PlaySendsOneMessage ==
  \A t \in 1..Len(tasks) :
    IsPlayTask(t) =>
      LET m == MessagesBy(t)
          row == tasks[t].row
          resolved == \/ tasks[t].pc = "awaitSend"
                      \/ tasks[t].end \in {"sent", "send failed", "no tab"}
      IN /\ Cardinality(m) <= 1
         /\ \A k \in m :
              sent[k] = [type |-> "PLAY", value |-> Str(row.timestamp),
                         to |-> OptId(tab), by |-> t]
         /\ (resolved /\ IsRow(row) /\ row.timestamp # "" /\ Truthy(OptId(tab)))
              => Cardinality(m) = 1
         /\ (~IsRow(row) \/ row.timestamp = "" \/ ~Truthy(OptId(tab)))
              => m = {}

C6_Witness ==
  \E t \in 1..Len(tasks) :
    /\ IsPlayTask(t)
    /\ tasks[t].end = "sent"
    /\ tasks[t].row.timestamp = "0"
    /\ \E k \in MessagesBy(t) : sent[k].value = Str("0") /\ sent[k].to = Num(7)

\* The conditions under which initialization must stop.
NotAVideoTab ==
  LET u == OptUrl(tab)
  IN \/ ~Truthy(u)
     \/ ~Includes(u.c, WatchLiteral)
     \/ ~Truthy(extractVideoId(u))

\* C7: when the active tab is unavailable, its URL is absent, the URL does
\* not contain "youtube.com/watch" or no video id can be extracted, then
\* once the tab query of initialization has settled the "not a YouTube page"
\* message is shown and initialization has stopped: it issued no storage
\* read and made no viewBookmarks call.
C7_InitStopsOffVideoPages ==
  (/\ open
   /\ init.pc \notin {"loading", "awaitTab"}
   /\ (init.end = "tab query failed" \/ NotAVideoTab))
    => /\ init.pc = "done"
       /\ dom.page = "message"
       /\ init.reads = 0
       /\ init.views = 0

C7_Witness ==
  /\ open
  /\ tab # Undef /\ OptUrl(tab) = OtherUrlWithId
  /\ init.pc = "done"
  /\ dom.page = "message"

\* C8: when the storage read of initialization reports an error, running
\* its callback leaves the document as it was, calls viewBookmarks not at
\* all, shows no error view and lets no exception escape.
C8_StorageErrorLeavesPopupUntouched ==
  [][(/\ init.pc = "callback" /\ init.resp.err
      /\ init'.pc = "done" /\ open')
       => (/\ dom' = dom
           /\ uncaught' = uncaught
           /\ init'.views = init.views)]_vars

C8_Witness ==
  /\ open
  /\ init.end = "storage error"
  /\ dom = FreshDocument
  /\ uncaught = {}

\* C9: no exception escapes a handler or a storage callback, whatever
\* fails in initialization, play, delete or the post-delete re-fetch,
\* an unparsable stored value or a storage read error included.
C9_NoExceptionEscapes == uncaught = {}

\* C12: no two bookmark rows in the container have the same identifier
\* (bookmark-<time>) or the same timestamp attribute, whatever list is
\* stored, two valid entries with equal time included.
C12_RowsUniquelyIdentified ==
  \A i, j \in 1..Len(dom.children) :
    (i # j /\ IsRow(dom.children[i]) /\ IsRow(dom.children[j]))
      => /\ dom.children[i].id # dom.children[j].id
         /\ dom.children[i].timestamp # dom.children[j].timestamp

\* The list a storage response carries: the parsed stored array, or the
\* empty list when nothing (or no array) is stored under the video id.
ListOf(r) ==
  IF r.val.t = "json" /\ IsArray(r.val.v) THEN r.val.v.a ELSE <<>>

\* The container as rendered from a list alone.
RowsOfList(list) ==
  IF Len(list) = 0 THEN <<Placeholder>> ELSE ExpectedRows(list)

\* The step in which the re-fetch of delete t resolves and renders.
FetchResolves(t) ==
  /\ t \in 1..Len(tasks) /\ tasks[t].pc = "refreshCallback"
  /\ open' /\ tasks'[t].pc = "done" /\ tasks'[t].end = "refreshed"

\* C13: each resolving post-delete re-fetch overwrites the whole rendered
\* list: right after it the container holds the rows of the list that
\* fetch read and nothing else, whatever was rendered before and whether or
\* not re-fetches issued later have resolved already; so when the last of
\* several re-fetches in flight resolves, the rows are those of that fetch.
C13_LastResolvedFetchWins ==
  [][\A t \in 1..MaxClicks :
       FetchResolves(t) =>
         /\ dom'.page = "popup"
         /\ dom'.children = RowsOfList(ListOf(tasks[t].resp))]_vars

\* Two deletes re-fetched and the content script applied both deletions, yet
\* the container shows the row of the second-deleted bookmark again: the
\* re-fetch that resolved last had read storage before that deletion.
C13_Witness ==
  /\ Len(tasks) = 2
  /\ \A t \in 1..2 : RemovedARow(t) /\ tasks[t].end = "refreshed"
  /\ tasks[1].ts # tasks[2].ts
  /\ \A k \in 1..Len(sent) : delivery[k] = "applied"
  /\ Len(sent) = 2
  /\ storage[<<"a">>] = Json(Arr(<<>>))
  /\ \E i \in 1..Len(dom.children) :
       IsRow(dom.children[i]) /\ dom.children[i].timestamp = ToStr(tasks[2].ts)

\* Initialization has rendered the bookmarks of a video page.
FirstRenderDone == open /\ init.end = "rendered"

OnlyRows(children) == \A i \in 1..Len(children) : IsRow(children[i])

\* C14 as claimed: after the first render of a video page the container
\* holds exactly the placeholder or at least one bookmark row, never both
\* and never nothing, after any stored list and after any delete.
C14_PlaceholderOrSomeRow ==
  FirstRenderDone =>
    \/ dom.children = <<Placeholder>>
    \/ Len(dom.children) >= 1 /\ OnlyRows(dom.children)

\* The stored value is a non-empty list without a valid entry.
StoredListHasNoValidEntry ==
  \E key \in DOMAIN storage :
    /\ storage[key].t = "json" /\ IsArray(storage[key].v)
    /\ storage[key].v.a # <<>>
    /\ SelectSeq(storage[key].v.a, ValidEntry) = <<>>

\* C14 amended: after the first render of a video page the container holds
\* exactly the placeholder or only bookmark rows, never both; it holds
\* nothing at all only after a non-empty stored list without a valid entry
\* was rendered or after a delete removed a row.
C14_PlaceholderOrOnlyRows ==
  FirstRenderDone =>
    /\ dom.page = "popup"
    /\ dom.children = <<Placeholder>> \/ OnlyRows(dom.children)
    /\ dom.children = <<>> =>
         (StoredListHasNoValidEntry \/ \E t \in 1..Len(tasks) : RemovedARow(t))

\* The only row was deleted, the DELETE send failed and no re-fetch follows:
\* the container stays empty.
C14_Witness ==
  /\ FirstRenderDone
  /\ dom.children = <<>>
  /\ Len(tasks) = 1 /\ RemovedARow(1) /\ tasks[1].end = "send failed"

\* What the popup holds and does: its document, its handlers' positions,
\* the messages it has sent.
popupVars == <<dom, open, init, tasks, sent, uncaught>>

\* The content script applies the deletion asked for by the k-th message.
AppliesDelete(k) ==
  /\ k \in 1..Len(sent) /\ sent[k].type = "DELETE"
  /\ delivery[k] = "pending" /\ delivery'[k] = "applied"

\* C15: no step of the popup (initialization, render, play, delete, re-fetch,
\* close) changes the stored value of any video id; the stored value changes
\* only in a step of the content script applying a DELETE message the popup
\* sent, and that step changes nothing of the popup.
C15_PopupNeverWritesStorage ==
  [][/\ popupVars' # popupVars => storage' = storage
     /\ storage' # storage => \E k \in 1..MaxClicks : AppliesDelete(k)]_vars

\* Two deletes have run with their re-fetches; the content script has
\* applied the first only, and storage still holds the second bookmark and
\* no longer the first.
C15_Witness ==
  /\ Len(tasks) = 2
  /\ \A t \in 1..2 : RemovedARow(t) /\ tasks[t].end = "refreshed"
  /\ tasks[1].ts = Str("0") /\ tasks[2].ts = Str("1")
  /\ delivery = <<"applied", "pending">>
  /\ storage[<<"a">>] = Json(Arr(<<Obj(Num(1), StoredDesc(2))>>))

\* What holds of the DELETE messages in every state: each was sent by a
\* delete handler that had removed an element before, and carries the
\* timestamp that handler read; a handler has sent at most one; a handler
\* that found no row element has sent none, has ended and reads nothing.
DeleteMessagesFollowRemoval ==
  /\ \A k \in 1..Len(sent) :
       (open /\ sent[k].type = "DELETE") =>
         /\ IsDeleteTask(sent[k].by)
         /\ tasks[sent[k].by].removed > 0
         /\ sent[k].value = tasks[sent[k].by].ts
  /\ \A t \in 1..Len(tasks) :
       IsDeleteTask(t) =>
         /\ Cardinality(MessagesBy(t)) <= 1
         /\ \A k \in MessagesBy(t) : sent[k].type = "DELETE"
         /\ tasks[t].removed = 0 =>
              /\ MessagesBy(t) = {}
              /\ tasks[t].pc = "done"
              /\ tasks[t].end \in {"no timestamp", "no element"}
              /\ tasks[t].reads = 0

\* What holds of every delete click: the element it removes is a bookmark
\* row whose timestamp attribute is the timestamp the handler read, only
\* that element leaves the container, and nothing is sent in the click step.
DeleteClickRemovesItsRow ==
  (open' /\ Len(tasks') = Len(tasks) + 1 /\ tasks'[Len(tasks')].kind = "delete") =>
    LET task == tasks'[Len(tasks')]
        j == task.removed
    IN /\ sent' = sent
       /\ j = 0 => dom' = dom
       /\ j > 0 =>
            /\ j \in 1..Len(dom.children) /\ IsRow(dom.children[j])
            /\ Str(dom.children[j].timestamp) = task.ts
            /\ dom' = [dom EXCEPT !.children = RemoveAt(dom.children, j)]

\* C17: every DELETE message carries the timestamp of a row the same click
\* removed from the container and is sent only after that removal; a click
\* sends at most one DELETE message; a click for which no row element is
\* found sends no message and schedules no re-fetch.
C17_DeleteMessageFollowsRemoval ==
  []DeleteMessagesFollowRemoval /\ [][DeleteClickRemovesItsRow]_vars

\* A delete on the second of two rows with equal time has removed the first
\* row and sent its message, carrying the timestamp both rows have; and a
\* delete on a detached row found no element and sent nothing.
C17_Witness ==
  /\ Len(tasks) = 2
  /\ tasks[1].clicked = 2 /\ tasks[1].removed = 1 /\ tasks[1].end = "refreshed"
  /\ \E k \in MessagesBy(1) : sent[k] = [type |-> "DELETE", value |-> tasks[1].ts,
                                          to |-> Num(7), by |-> 1]
  /\ tasks[2].row = DetachedRow /\ tasks[2].end = "no element"
  /\ MessagesBy(2) = {}

\* The list stored now for the video of the active tab.
StoredNow == StorageGet(VideoIdOfTabUrl[OptUrl(tab)])
StoredListNow == ListOf([val |-> StoredNow])

HasRowFor(children, timestamp) ==
  \E i \in 1..Len(children) :
    IsRow(children[i]) /\ Str(children[i].timestamp) = timestamp

\* The k-th message is a DELETE the content script has applied.
AppliedDelete(k) ==
  k \in 1..Len(sent) /\ sent[k].type = "DELETE" /\ delivery[k] = "applied"

\* No handler, timer or re-fetch is pending, and every delete that removed
\* a row has had its re-fetch resolve and render.
AllRefetchesResolved ==
  /\ open
  /\ \A t \in 1..Len(tasks) :
       /\ tasks[t].pc = "done"
       /\ RemovedARow(t) => tasks[t].end = "refreshed"

\* C18 as claimed: once the content script has applied a delivered
\* deletion and every re-fetch has resolved, the rendered list has no row
\* for the deleted timestamp and equals the valid bookmarks stored now,
\* however the storage update and the re-fetches interleave.
C18_ListMatchesStorageAfterDelete ==
  (AllRefetchesResolved /\ \E k \in 1..MaxClicks : AppliedDelete(k)) =>
    /\ \A k \in 1..MaxClicks :
         AppliedDelete(k) => ~HasRowFor(dom.children, sent[k].value)
    /\ RenderedRows(dom) = ExpectedRows(StoredListNow)

\* No DELETE message still awaits the content script.
NoDeletePending ==
  \A k \in 1..Len(sent) : sent[k].type = "DELETE" => delivery[k] # "pending"

\* C18 amended: when a re-fetch resolves with the value that is stored now,
\* read without error, and no DELETE message still awaits the content
\* script, the rendered list is left with no row for any applied deletion's
\* timestamp and equal to the valid bookmarks stored (the placeholder when
\* the list is empty).  (A re-fetch that read storage before the content
\* script's update renders the old list instead.)
C18_FreshReadMatchesStorage ==
  [][\A t \in 1..MaxClicks :
       (/\ FetchResolves(t)
        /\ ~tasks[t].resp.err /\ tasks[t].resp.val = StoredNow
        /\ NoDeletePending)
       => /\ dom'.children = RowsOfList(StoredListNow)
          /\ RenderedRows(dom') = ExpectedRows(StoredListNow)
          /\ \A k \in 1..MaxClicks :
               AppliedDelete(k) => ~HasRowFor(dom'.children, sent[k].value)]_vars

\* Two deletes in quick succession, both applied by the content script and
\* both re-fetched: the list is empty in storage and the placeholder shows.
C18_Witness ==
  /\ AllRefetchesResolved
  /\ Len(tasks) = 2 /\ RemovedARow(1) /\ RemovedARow(2)
  /\ tasks[1].ts # tasks[2].ts
  /\ AppliedDelete(1) /\ AppliedDelete(2)
  /\ StoredNow = Json(Arr(<<>>))
  /\ dom.children = <<Placeholder>>

(***************************************************************************)
(* initializeExtension and refreshBookmarks compared, under SpecCycle.     *)
(***************************************************************************)
\* Where a run stands: at its tab query, at its storage read, in the
\* callback of the read, or finished.
InitPhase(pc) ==
  CASE pc = "awaitTab" -> "tab"
    [] pc = "awaitStorage" -> "storage"
    [] pc = "callback" -> "callback"
    [] pc = "done" -> "done"
    [] OTHER -> "other"

RefreshPhase(pc) ==
  CASE pc = "refreshAwaitTab" -> "tab"
    [] pc = "refreshAwaitStorage" -> "storage"
    [] pc = "refreshCallback" -> "callback"
    [] pc = "done" -> "done"
    [] OTHER -> "other"

NotYouTubeMessage == [page |-> "message", children |-> <<>>]
RenderOf(r) == [page |-> "popup", children |-> RowsOfList(ListOf(r))]
Unparsable(r) == r.val.t = "garbage"

\* A step of the full cycle, from phase before to phase after, r being the
\* storage response at hand: a run that ends at its tab query shows the
\* not-YouTube message, and only a watch page with a video id lets it go on
\* to storage; a storage error updates nothing and lets nothing escape;
\* otherwise the list read is rendered (an unparsable value renders nothing).
FullCycleStep(before, after, r) ==
  /\ (before = "tab" /\ after = "done") => dom' = NotYouTubeMessage
  /\ (before = "tab" /\ after = "storage") => ~NotAVideoTab
  /\ (before = "callback" /\ after = "done") =>
       IF r.err THEN dom' = dom /\ uncaught' = uncaught
       ELSE IF Unparsable(r) THEN dom' = dom
       ELSE dom' = RenderOf(r)

\* initializeExtension runs the full cycle.
InitRunsFullCycle ==
  open' => FullCycleStep(InitPhase(init.pc), InitPhase(init'.pc), init.resp)

\* C16 as claimed: refreshBookmarks is the full initialization cycle: for
\* the same active tab and storage outcome it leaves the popup in the state
\* initializeExtension leaves it in (the not-YouTube message for a missing
\* tab, a missing URL or a non-watch URL; no update on a storage error;
\* otherwise the same rows).
C16_RefreshIsInitCycle ==
  [][/\ InitRunsFullCycle
     /\ \A t \in 1..Len(tasks) :
          open' => FullCycleStep(RefreshPhase(tasks[t].pc),
                                 RefreshPhase(tasks'[t].pc), tasks[t].resp)]_vars

\* What refreshBookmarks does instead: a run that ends at its tab query
\* leaves the document as it is; any URL with a video id lets it go on to
\* storage; a failed read is not told from a successful one: without a data
\* object the callback throws, with one the value found (none) is rendered.
RefreshCycleStep(before, after, r) ==
  /\ (before = "tab" /\ after = "done") => dom' = dom
  /\ (before = "tab" /\ after = "storage") => Truthy(extractVideoId(OptUrl(tab)))
  /\ (before = "callback" /\ after = "done") =>
       IF ~r.hasData
       THEN dom' = dom /\ "refreshBookmarks storage callback" \in uncaught'
       ELSE IF Unparsable(r) THEN dom' = dom
       ELSE dom' = RenderOf(r)

\* C16 amended: initializeExtension runs the full cycle; refreshBookmarks
\* leaves the popup in the same state only when the active tab is on a
\* watch page with a video id and the storage read succeeds (the same rows,
\* or the placeholder); otherwise it shows no not-YouTube message, reads
\* storage for any URL with a video id, and does not stop on a storage error.
C16_RefreshAgreesOnSuccessfulReads ==
  [][/\ InitRunsFullCycle
     /\ \A t \in 1..Len(tasks) :
          open' =>
            LET before == RefreshPhase(tasks[t].pc)
                after == RefreshPhase(tasks'[t].pc)
                r == tasks[t].resp
            IN /\ RefreshCycleStep(before, after, r)
               /\ (before = "callback" /\ ~NotAVideoTab /\ ~r.err)
                    => FullCycleStep(before, after, r)]_vars

\* refreshBookmarks has run on a watch page whose stored list has one valid
\* bookmark, over a document holding another row, and rendered that list.
C16_Witness ==
  /\ Len(tasks) = 1 /\ tasks[1] = [RefreshCall EXCEPT !.pc = "done", !.end = "refreshed",
                                                      !.reads = 1]
  /\ OptUrl(tab) = WatchUrlA
  /\ storage[<<"a">>] = Json(Arr(<<Obj(Num(0), StoredDesc(1))>>))
  /\ dom.children = <<BookmarkElement(Obj(Num(0), StoredDesc(1)))>>

(***************************************************************************)
(* Properties of the URL helpers, checked under SpecUrl.                   *)
(***************************************************************************)
\* Some "&"-separated piece of the text after a "?" reads v=<non-empty>.
HasNonEmptyV(c) ==
  \E i \in 2..(Len(c) - 2) :
    /\ c[i] = "v" /\ c[i + 1] = "="
    /\ c[i - 1] \in {"?", "&"}
    /\ c[i + 2] \notin {"?", "&"}
    /\ \E q \in 1..(i - 1) : c[q] = "?"

\* C10: isYouTubeVideoPage(url) is truthy exactly when url contains
\* "youtube.com/watch" and extractVideoId(url) is a non-empty video id; it is
\* falsy for an absent url and for a url whose v parameter is missing or
\* empty.
C10_IsYouTubeVideoPage ==
  urlResult.fn = "isYouTubeVideoPage" =>
    LET id == extractVideoId(url)
    IN /\ Truthy(urlResult.v) <=>
            (/\ url # Undef
             /\ Includes(url.c, WatchLiteral)
             /\ id.t = "chars" /\ id.c # <<>>)
       /\ Truthy(urlResult.v) => (url # Undef /\ HasNonEmptyV(url.c))

C10_Witness ==
  /\ url = WatchUrlA
  /\ urlResult = [fn |-> "isYouTubeVideoPage", v |-> Chars(<<"a">>)]

\* The query of a URL: all the text after its first "?" (a later "?" belongs
\* to the query); undefined when there is no "?".
UrlQuery(c) ==
  LET q == IndexOf(c, "?")
  IN IF q = 0 THEN Undef ELSE Chars(SubSeq(c, q + 1, Len(c)))

\* The value of the query parameter v of a URL, null when it has none.
QueryParameterV(u) ==
  IF ~Truthy(u) THEN Null
  ELSE ParamsGet(URLSearchParams(UrlQuery(u.c)), <<"v">>)

\* C11: extractVideoId(url) returns the value of the query parameter v of
\* url when the URL has one, and null when url is absent, has no query
\* string or has no v parameter.
C11_ReturnsQueryParameterV ==
  urlResult.fn = "extractVideoId" => urlResult.v = QueryParameterV(url)

====
